---- MODULE Spec2Model ----
(***************************************************************************)
(* EnttWrap.h: an entityx-style facade (Entity, ComponentHandle, views,    *)
(* EventManager, SystemManager) over the entt 2.x registry, dispatcher and *)
(* family generator.                                                       *)
(*                                                                         *)
(* The facade forwards to the registry without checking the registry's    *)
(* own preconditions (entt states them as assert()).  A call that breaks  *)
(* one has two outcomes, depending on the build: with assertions on the   *)
(* process aborts; with NDEBUG the registry code simply runs on.  The     *)
(* build is the variable ndebug, chosen in Init; crashed records that the *)
(* process has ended.                                                      *)
(***************************************************************************)
EXTENDS Integers, Sequences, FiniteSets, TLC

\* ---------------------------------------------------------------- bounds
MaxEntities == 2
MaxVersion  == 1
\* How many registry calls of one run may run on past a precondition the
\* registry only asserts (such calls exist with NDEBUG alone).
MaxBroken   == 1
\* How many instances of one system type a run hands to add().
MaxAdds     == 2
\* How many configure() calls one system instance receives in a run.
MaxConfigures == 2
\* How many events wait in the dispatcher's queues at a time.
MaxQueue    == 2
\* How many of the entities createEntity returns the caller of a recycling
\* run keeps; the others are destroyed where they are created.
MaxHeld     == 1

\* ------------------------------------------------------ program constants
\* entity_type is 32 bits: 20 bits of index, 12 bits of version.
EntityMask  == 1048575
VersionMask == 4095

Components == {"C1", "C2"}
Receivers  == {"R1", "R2"}
SysTypes   == {"A", "B", "C"}
\* The TimeDelta values the callers pass.
Deltas     == {1, 2}
\* The event types of the application, and the payloads of their events.
EventTypes == {"E1", "E2"}
Vals       == {1, 2}
\* The component pools in the order the registry numbers them.
PoolOrder == <<"C1", "C2">>

\* Entity::INVALID = 0xffffffff, as (index, version).
INVALID == [idx |-> EntityMask, ver |-> VersionMask]
\* SparseSet's marker of an empty reverse slot.
Pending == -1

VARIABLES
    ndebug,     \* TRUE: built with NDEBUG, assert() compiles to nothing
    crashed,    \* the process has ended on a failed assert or a memory fault
    broken,     \* the registry calls so far that ran on past a failed precondition
    reg,        \* the registry the EntityManager inherits
    created,    \* every identifier createEntity has returned so far
    holds,      \* history: per component, the entities assign ran on with no
                \* later remove or destroy (the facade's documented meaning)
    last,       \* the last facade call and what it returned
    yielded,    \* what the last view traversal yielded, in order
    sinkAdded,  \* per component, the dispatcher's listeners of ComponentAddedEvent
    hookAdded,  \* per component, receiveAddComponent is connected to construction<C>
    subscribed, \* history: per component, the receivers that subscribed and
                \* have not themselves unsubscribed since
    delivered,  \* the events the receivers were handed during the last call
    identifier, \* Family<SystemFamily>: the next family id to hand out
    family,     \* Family<SystemFamily>: the id of each system type, once asked
    systems_,   \* SystemManager::systems_, in the order a loop over it visits
    initialized_, \* SystemManager::initialized_
    adds,       \* per system type, the instances add() has been given so far
    registered, \* history: the instances systems_ took in, in the order of
                \* the add() calls that brought them
    configures, \* per instance, the configure() calls it has received
    updates,    \* the update() calls of the last scheduler call: instance, dt
    sysLast,    \* the last SystemManager call and what it returned
    sinkRemoved, \* per component, the dispatcher's listeners of ComponentRemovedEvent
    hookRemoved, \* per component, receiveRemoveComponent is connected to destruction<C>
    subscribedRemoved, \* history: per component, the receivers that subscribed to
                \* ComponentRemovedEvent and have not unsubscribed since
    sinks,      \* per event type, the dispatcher's listeners (SigH::calls)
    subscribedTo, \* history: per event type, the receivers now subscribed, in
                \* the order of their subscribe calls
    evFamily,   \* the dispatcher's event family: the id of each event type used
    queue,      \* per event type, the events enqueue() has stored
    enqueued,   \* history: the events enqueued since the last update(), in order
    evLast,     \* the last EventManager call
    unpacked,   \* per entity the last view traversal yielded, the writes it
                \* made to the caller's handles before yielding it
    cmp         \* the last comparison of two Entity values and its results

sysVars == <<identifier, family, systems_, initialized_, adds, registered,
             configures, updates, sysLast>>

removedVars == <<sinkRemoved, hookRemoved, subscribedRemoved>>

busVars == <<sinks, subscribedTo, evFamily, queue, enqueued, evLast>>

\* What the entity store's own operations leave alone.
otherVars == <<sysVars, removedVars, busVars, cmp>>

vars == <<ndebug, crashed, broken, reg, created, holds, last, yielded,
          sinkAdded, hookAdded, subscribed, delivered, sysVars,
          removedVars, busVars, unpacked, cmp>>

\* --------------------------------------------------------------- helpers
Indices == 0 .. (MaxEntities - 1)

RECURSIVE Reverse(_)
Reverse(s) == IF s = <<>> THEN <<>> ELSE Append(Reverse(Tail(s)), Head(s))

Range(s) == {s[i] : i \in 1 .. Len(s)}

Count(s, x) == Cardinality({i \in 1 .. Len(s) : s[i] = x})

\* ------------------------------------------------------------- SparseSet
EmptySet == [direct |-> <<>>, reverse |-> [i \in Indices |-> Pending]]

\* SparseSet::has: looks the index up, the version is not compared.
SSHas(s, id) == id.idx \in DOMAIN s.reverse /\ s.reverse[id.idx] # Pending

\* SparseSet::construct: reverse[pos] = direct.size(); direct.push_back(entity).
SSConstruct(s, id) ==
    [direct  |-> Append(s.direct, id),
     reverse |-> [s.reverse EXCEPT ![id.idx] = Len(s.direct)]]

\* SparseSet::destroy: the last element takes the place of the removed one.
SSDestroy(s, id) ==
    LET back      == s.direct[Len(s.direct)]
        candidate == s.reverse[id.idx]
        rev1      == [s.reverse EXCEPT ![back.idx] = candidate]
        dir1      == [s.direct EXCEPT ![candidate + 1] = back]
    IN  [direct  |-> SubSeq(dir1, 1, Len(dir1) - 1),
         reverse |-> [rev1 EXCEPT ![id.idx] = Pending]]

\* ---------------------------------------------------------------- Registry
EmptyRegistry ==
    [entities  |-> <<>>,
     next      |-> 0,
     available |-> 0,
     pool      |-> [c \in Components |-> EmptySet],
     prepared  |-> FALSE,
     handler   |-> EmptySet]

\* Registry::valid: entities[pos] == entity, index and version both.
RegValid(R, id) ==
    /\ id.idx < Len(R.entities)
    /\ R.entities[id.idx + 1] = id

\* Registry::has<C> without its assert.
RegHasRaw(R, c, id) == SSHas(R.pool[c], id)

\* Registry::create: the head of the free list, or else a new slot.
RegCreateId(R) ==
    IF R.available > 0
    THEN [idx |-> R.next, ver |-> R.entities[R.next + 1].ver]
    ELSE [idx |-> Len(R.entities), ver |-> 0]

RegCreate(R) ==
    LET e == RegCreateId(R)
    IN  IF R.available > 0
        THEN [R EXCEPT !.next = R.entities[R.next + 1].idx,
                       !.entities[R.next + 1] = e,
                       !.available = R.available - 1]
        ELSE [R EXCEPT !.entities = Append(R.entities, e)]

\* The persistent view's listener on construction<C>: Registry::creating.
RegCreating(R, id) ==
    IF R.prepared /\ (\A c \in Components : RegHasRaw(R, c, id))
    THEN [R EXCEPT !.handler = SSConstruct(R.handler, id)]
    ELSE R

\* The persistent view's listener on destruction<C>: Registry::destroying.
RegDestroying(R, id) ==
    IF R.prepared /\ SSHas(R.handler, id)
    THEN [R EXCEPT !.handler = SSDestroy(R.handler, id)]
    ELSE R

\* Registry::assign<C> past its asserts: construct, then publish.
RegAssign(R, c, id) ==
    RegCreating([R EXCEPT !.pool[c] = SSConstruct(R.pool[c], id)], id)

\* Registry::remove<C> past its asserts: publish, then destroy.
RegRemove(R, c, id) ==
    LET R1 == RegDestroying(R, id)
    IN  [R1 EXCEPT !.pool[c] = SSDestroy(R1.pool[c], id)]

\* Registry::destroy, the loop over the pools from the last to the first.
RECURSIVE RegDropPools(_, _, _)
RegDropPools(R, id, pos) ==
    IF pos = 0 THEN R
    ELSE LET c == PoolOrder[pos]
         IN  IF RegHasRaw(R, c, id)
             THEN RegDropPools(RegRemove(R, c, id), id, pos - 1)
             ELSE RegDropPools(R, id, pos - 1)

\* The components Registry::destroy publishes destruction<C> for, in order.
RECURSIVE RegDropped(_, _, _)
RegDropped(R, id, pos) ==
    IF pos = 0 THEN <<>>
    ELSE LET c == PoolOrder[pos]
         IN  IF RegHasRaw(R, c, id)
             THEN <<c>> \o RegDropped(R, id, pos - 1)
             ELSE RegDropped(R, id, pos - 1)

\* Registry::destroy that drops the components and forgets to release the
\* slot: the identifier stays in entities.
RegDestroy_KeepsSlot(R, id) == RegDropPools(R, id, Len(PoolOrder))

\* Registry::destroy past its assert: the version in the identifier is
\* raised (modulo its 12 bits) and the slot joins the free list.
RegDestroy(R, id) ==
    LET R1   == RegDropPools(R, id, Len(PoolOrder))
        ver  == (id.ver + 1) % (VersionMask + 1)
        node == IF R1.available > 0 THEN R1.next
                ELSE (id.idx + 1) % (EntityMask + 1)
    IN  [R1 EXCEPT !.entities[id.idx + 1] = [idx |-> node, ver |-> ver],
                   !.next = id.idx,
                   !.available = R1.available + 1]

\* Registry::view<C1, C2>() as prepare uses it: the smaller pool drives, the
\* others are asked has().
RegViewMulti(R) ==
    LET driving == IF Len(R.pool["C2"].direct) < Len(R.pool["C1"].direct)
                   THEN "C2" ELSE "C1"
    IN  SelectSeq(Reverse(R.pool[driving].direct),
                  LAMBDA id : \A c \in Components : RegHasRaw(R, c, id))

RECURSIVE SSConstructAll(_, _)
SSConstructAll(s, ids) ==
    IF ids = <<>> THEN s
    ELSE SSConstructAll(SSConstruct(s, Head(ids)), Tail(ids))

\* Registry::prepare<C1, C2>: the first persistent view fills the handler
\* from the pools and connects creating/destroying; later ones find it.
RegPrepare(R) ==
    IF R.prepared THEN R
    ELSE [R EXCEPT !.prepared = TRUE,
                   !.handler = SSConstructAll(EmptySet, RegViewMulti(R))]

\* ------------------------------------------------------------------ facade
\* The entities a caller can hold: what createEntity returned, and Entity().
Held == created \cup {INVALID}

\* Entity::valid
Entity_valid(e) ==
    IF e # INVALID THEN RegValid(reg, e) ELSE FALSE

\* ComponentHandle<C>::valid, for the handle Entity e hands out: its manager_
\* is the entity's, null for Entity().
ComponentHandle_valid(e, c) ==
    /\ e # INVALID
    /\ RegValid(reg, e)
    /\ RegHasRaw(reg, c, e)

\* A call record: the operation, its receiver and component, what came back
\* ("abort": it did not return), whether the entity was valid when called and
\* the construction/destruction signals the registry published.
Call(op, e, c, ret, fired) ==
    [op |-> op, ent |-> e, comp |-> c, ret |-> ret,
     wasValid |-> Entity_valid(e), fired |-> fired]

NoCall == [op |-> "none", ent |-> INVALID, comp |-> "C1", ret |-> "ok",
           wasValid |-> FALSE, fired |-> <<>>]

Abort(op, e, c) ==
    /\ crashed' = TRUE
    /\ last' = Call(op, e, c, "abort", <<>>)
    /\ yielded' = <<>>
    /\ unpacked' = <<>>
    /\ delivered' = <<>>
    /\ UNCHANGED <<ndebug, broken, reg, created, holds, sinkAdded, hookAdded, subscribed>>

\* A registry call that runs on although its precondition fails is counted,
\* and a run makes at most MaxBroken of them.
Breaks(violated) ==
    IF violated
    THEN broken < MaxBroken /\ broken' = broken + 1
    ELSE broken' = broken

\* SigH::publish: for(pos = calls.size(); pos; --pos) calls[pos-1](args...),
\* the listeners from the last connected to the first.
SigHPublish(calls) == Reverse(calls)

\* EventManager::emit as receiveAddComponent calls it: every listener of the
\* sink is handed the event, in the order SigH::publish calls them.
EmitAdded(c, e) ==
    LET calls == SigHPublish(sinkAdded[c])
    IN  [i \in 1 .. Len(calls) |->
            [recv |-> calls[i], kind |-> "added", comp |-> c, ent |-> e]]

\* EventManager::emit as receiveRemoveComponent calls it.
EmitRemoved(c, e) ==
    LET calls == SigHPublish(sinkRemoved[c])
    IN  [i \in 1 .. Len(calls) |->
            [recv |-> calls[i], kind |-> "removed", comp |-> c, ent |-> e]]

\* destruction<C>().publish as the facade sees it.
PublishRemoved(c, e) ==
    IF hookRemoved[c] THEN EmitRemoved(c, e) ELSE <<>>

\* Registry::destroy publishes destruction<C> for every component it drops.
RECURSIVE PublishDropped(_, _)
PublishDropped(d, e) ==
    IF d = <<>> THEN <<>>
    ELSE PublishRemoved(Head(d), e) \o PublishDropped(Tail(d), e)

\* construction<C>().publish as the facade sees it.
PublishAdded(c, e) ==
    IF hookAdded[c] THEN EmitAdded(c, e) ELSE <<>>

\* EntityManager::createEntity
CreateEntity ==
    /\ ~crashed
    /\ UNCHANGED otherVars
    /\ reg.available > 0 \/ Len(reg.entities) < MaxEntities
    /\ reg' = RegCreate(reg)
    /\ created' = created \cup {RegCreateId(reg)}
    /\ last' = Call("create", RegCreateId(reg), "C1", "ok", <<>>)
    /\ yielded' = <<>>
    /\ unpacked' = <<>>
    /\ delivered' = <<>>
    /\ UNCHANGED <<ndebug, crashed, broken, holds,
                   sinkAdded, hookAdded, subscribed>>

\* entities.createEntity().destroy(): one round of recycling a free index.
\* The caller keeps no copy of the entity.
Recycle ==
    /\ ~crashed
    /\ UNCHANGED otherVars
    /\ reg.available > 0
    /\ reg' = RegDestroy(RegCreate(reg), RegCreateId(reg))
    /\ last' = Call("recycle", RegCreateId(reg), "C1", "ok", <<>>)
    /\ yielded' = <<>>
    /\ unpacked' = <<>>
    /\ delivered' = <<>>
    /\ UNCHANGED <<ndebug, crashed, broken, created, holds,
                   sinkAdded, hookAdded, subscribed>>

\* Entity::assign<C>
Entity_assign(e, c) ==
    /\ ~crashed
    /\ UNCHANGED otherVars
    /\ e \in Held
    /\ Len(reg.pool[c].direct) < MaxEntities
    /\ IF e = INVALID
       THEN /\ last' = Call("assign", e, c, "ok", <<>>)
            /\ yielded' = <<>>
            /\ unpacked' = <<>>
            /\ delivered' = <<>>
            /\ UNCHANGED <<ndebug, crashed, broken, reg, created, holds,
                           sinkAdded, hookAdded, subscribed>>
       ELSE IF ~ndebug /\ (~RegValid(reg, e) \/ RegHasRaw(reg, c, e))
       THEN Abort("assign", e, c)
       ELSE /\ Breaks(~RegValid(reg, e) \/ RegHasRaw(reg, c, e))
            /\ reg' = RegAssign(reg, c, e)
            /\ holds' = IF RegValid(reg, e)
                        THEN [holds EXCEPT ![c] = @ \cup {e}] ELSE holds
            /\ last' = Call("assign", e, c, "ok",
                            <<[kind |-> "added", comp |-> c, ent |-> e]>>)
            /\ yielded' = <<>>
            /\ unpacked' = <<>>
            /\ delivered' = PublishAdded(c, e)
            /\ UNCHANGED <<ndebug, crashed, created,
                           sinkAdded, hookAdded, subscribed>>

\* Entity::remove<C>
Entity_remove(e, c) ==
    /\ ~crashed
    /\ UNCHANGED otherVars
    /\ e \in Held
    /\ IF e = INVALID
       THEN /\ last' = Call("remove", e, c, "ok", <<>>)
            /\ yielded' = <<>>
            /\ unpacked' = <<>>
            /\ delivered' = <<>>
            /\ UNCHANGED <<ndebug, crashed, broken, reg, created, holds,
                           sinkAdded, hookAdded, subscribed>>
       ELSE IF ~RegHasRaw(reg, c, e) \/ (~ndebug /\ ~RegValid(reg, e))
       THEN \* assert(valid(entity)), assert(has(entity)); with NDEBUG
            \* SparseSet::destroy of an absent entity writes outside direct
            Abort("remove", e, c)
       ELSE /\ Breaks(~RegValid(reg, e))
            /\ reg' = RegRemove(reg, c, e)
            /\ holds' = [holds EXCEPT ![c] = @ \ {e}]
            /\ last' = Call("remove", e, c, "ok",
                            <<[kind |-> "removed", comp |-> c, ent |-> e]>>)
            /\ yielded' = <<>>
            /\ unpacked' = <<>>
            /\ delivered' = PublishRemoved(c, e)
            /\ UNCHANGED <<ndebug, crashed, created,
                           sinkAdded, hookAdded, subscribed>>

\* Entity::destroy
Entity_destroy(e) ==
    /\ ~crashed
    /\ UNCHANGED otherVars
    /\ e \in Held
    /\ e.ver < MaxVersion \/ e = INVALID
    /\ reg.available < MaxEntities \/ e = INVALID
    /\ IF e = INVALID
       THEN /\ last' = Call("destroy", e, "C1", "ok", <<>>)
            /\ yielded' = <<>>
            /\ unpacked' = <<>>
            /\ delivered' = <<>>
            /\ UNCHANGED <<ndebug, crashed, broken, reg, created, holds,
                           sinkAdded, hookAdded, subscribed>>
       ELSE IF ~ndebug /\ ~RegValid(reg, e)
       THEN Abort("destroy", e, "C1")
       ELSE /\ Breaks(~RegValid(reg, e))
            /\ reg' = RegDestroy(reg, e)
            /\ holds' = [c \in Components |-> holds[c] \ {e}]
            /\ last' = Call("destroy", e, "C1", "ok",
                            LET d == RegDropped(reg, e, Len(PoolOrder))
                            IN  [i \in 1 .. Len(d) |->
                                   [kind |-> "removed", comp |-> d[i], ent |-> e]])
            /\ yielded' = <<>>
            /\ unpacked' = <<>>
            /\ delivered' = PublishDropped(RegDropped(reg, e, Len(PoolOrder)), e)
            /\ UNCHANGED <<ndebug, crashed, created,
                           sinkAdded, hookAdded, subscribed>>

\* Entity::has_component<C>
Entity_has_component(e, c) ==
    /\ ~crashed
    /\ UNCHANGED otherVars
    /\ e \in Held
    /\ IF e # INVALID /\ ~ndebug /\ ~RegValid(reg, e)
       THEN Abort("has_component", e, c)
       ELSE /\ last' = Call("has_component", e, c,
                            IF e # INVALID /\ RegHasRaw(reg, c, e)
                            THEN "true" ELSE "false", <<>>)
            /\ yielded' = <<>>
            /\ unpacked' = <<>>
            /\ delivered' = <<>>
            /\ UNCHANGED <<ndebug, crashed, broken, reg, created, holds,
                           sinkAdded, hookAdded, subscribed>>

\* ComponentHandle<C>::get, operator-> and operator* on the handle Entity e
\* hands out: assert(valid()), then manager_->get<C>(id_).  With NDEBUG an
\* invalid handle goes on: through the null manager_ of Entity()'s handle the
\* run ends; where the index holds a component (of another generation of the
\* index) that component comes back; where it holds none, the pool is
\* indexed with a stale position, which ends the run or returns whatever
\* memory is there.
ComponentHandle_get(e, c) ==
    /\ ~crashed
    /\ UNCHANGED otherVars
    /\ e \in Held
    /\ IF ComponentHandle_valid(e, c)
       THEN /\ last' = Call("get", e, c, "ok", <<>>)
            /\ yielded' = <<>>
            /\ unpacked' = <<>>
            /\ delivered' = <<>>
            /\ UNCHANGED <<ndebug, crashed, broken, reg, created, holds,
                           sinkAdded, hookAdded, subscribed>>
       ELSE IF ~ndebug \/ e = INVALID
       THEN Abort("get", e, c)
       ELSE IF RegHasRaw(reg, c, e)
       THEN /\ Breaks(TRUE)
            /\ last' = Call("get", e, c, "alias", <<>>)
            /\ yielded' = <<>>
            /\ unpacked' = <<>>
            /\ delivered' = <<>>
            /\ UNCHANGED <<ndebug, crashed, reg, created, holds,
                           sinkAdded, hookAdded, subscribed>>
       ELSE \/ Abort("get", e, c)
            \/ /\ Breaks(TRUE)
               /\ last' = Call("get", e, c, "garbage", <<>>)
               /\ yielded' = <<>>
               /\ unpacked' = <<>>
               /\ delivered' = <<>>
               /\ UNCHANGED <<ndebug, crashed, reg, created, holds,
                              sinkAdded, hookAdded, subscribed>>

\* entities_with_components<C>() and one traversal of it, begin() to end():
\* the pool's packed array from its last element to its first, each
\* identifier wrapped by getEntity.
EntityViewSingle(c) ==
    /\ ~crashed
    /\ UNCHANGED otherVars
    /\ yielded' = Reverse(reg.pool[c].direct)
    /\ unpacked' = <<>>
    /\ last' = Call("view_single", INVALID, c, "ok", <<>>)
    /\ delivered' = <<>>
    /\ UNCHANGED <<ndebug, crashed, broken, reg, created, holds,
                   sinkAdded, hookAdded, subscribed>>

\* entities_with_components<C1, C2>() and one traversal of it: the
\* persistent view's handler, prepared on first use.
EntityViewMulti ==
    /\ ~crashed
    /\ UNCHANGED otherVars
    /\ reg' = RegPrepare(reg)
    /\ yielded' = Reverse(RegPrepare(reg).handler.direct)
    /\ unpacked' = <<>>
    /\ last' = Call("view_multi", INVALID, "C1", "ok", <<>>)
    /\ delivered' = <<>>
    /\ UNCHANGED <<ndebug, crashed, broken, created, holds,
                   sinkAdded, hookAdded, subscribed>>

\* unpack_<N, C0, C1, ...>(entity): std::get<N>(handles) =
\* entity.component<C0>(), then the same for the types that follow.  A handle
\* is ComponentHandle(manager_, id_); the manager is the view's.
RECURSIVE Unpack(_, _)
Unpack(e, comps) ==
    IF comps = <<>> THEN <<>>
    ELSE <<[comp |-> Head(comps), handle |-> e]>> \o Unpack(e, Tail(comps))

\* entities_with_components<C>(handle) and one traversal of it: operator*
\* of the iterator calls the view's getEntity, which unpacks into the
\* caller's handle and then returns the entity.
EntityComponentViewSingle(c) ==
    /\ ~crashed
    /\ UNCHANGED otherVars
    /\ yielded' = Reverse(reg.pool[c].direct)
    /\ unpacked' = [i \in 1 .. Len(reg.pool[c].direct) |->
                       Unpack(Reverse(reg.pool[c].direct)[i], <<c>>)]
    /\ last' = Call("unpack_single", INVALID, c, "ok", <<>>)
    /\ delivered' = <<>>
    /\ UNCHANGED <<ndebug, crashed, broken, reg, created, holds,
                   sinkAdded, hookAdded, subscribed>>

\* entities_with_components<C1, C2>(handle1, handle2) and one traversal.
EntityComponentViewMulti ==
    /\ ~crashed
    /\ UNCHANGED otherVars
    /\ reg' = RegPrepare(reg)
    /\ yielded' = Reverse(RegPrepare(reg).handler.direct)
    /\ unpacked' = [i \in 1 .. Len(RegPrepare(reg).handler.direct) |->
                       Unpack(Reverse(RegPrepare(reg).handler.direct)[i],
                              PoolOrder)]
    /\ last' = Call("unpack_multi", INVALID, "C1", "ok", <<>>)
    /\ delivered' = <<>>
    /\ UNCHANGED <<ndebug, crashed, broken, created, holds,
                   sinkAdded, hookAdded, subscribed>>

\* SigH::Sink::connect: disconnect the same listener first, then append.
SinkDisconnect(s, r) == SelectSeq(s, LAMBDA x : x # r)
SinkConnect(s, r) == Append(SinkDisconnect(s, r), r)

\* An EventManager call record: the operation, the event type (and, of a
\* structural type, its component), the receiver and the payload.
EvCall(op, t, c, r, v) ==
    [op |-> op, type |-> t, comp |-> c, recv |-> r, val |-> v]

NoEvCall == [op |-> "none", type |-> "none", comp |-> "C1", recv |-> "none",
             val |-> 0]

\* EntityManager::subscribe<ComponentAddedEvent<C>>(receiver)
Subscribe_Added(r, c) ==
    /\ ~crashed
    /\ UNCHANGED <<sysVars, removedVars, cmp>>
    /\ evLast' = EvCall("subscribe", "ComponentAdded", c, r, 0)
    /\ UNCHANGED <<sinks, subscribedTo, evFamily, queue, enqueued>>
    /\ sinkAdded' = [sinkAdded EXCEPT ![c] = SinkConnect(@, r)]
    /\ hookAdded' = [hookAdded EXCEPT ![c] = TRUE]
    /\ subscribed' = [subscribed EXCEPT ![c] = @ \cup {r}]
    /\ last' = Call("subscribe", INVALID, c, "ok", <<>>)
    /\ yielded' = <<>>
    /\ unpacked' = <<>>
    /\ delivered' = <<>>
    /\ UNCHANGED <<ndebug, crashed, broken, reg, created, holds>>

\* EntityManager::unsubscribe<ComponentAddedEvent<C>>(receiver), called for
\* a receiver that is subscribed.
Unsubscribe_Added(r, c) ==
    /\ ~crashed
    /\ r \in subscribed[c]
    /\ UNCHANGED <<sysVars, removedVars, cmp>>
    /\ evLast' = EvCall("unsubscribe", "ComponentAdded", c, r, 0)
    /\ UNCHANGED <<sinks, subscribedTo, evFamily, queue, enqueued>>
    /\ sinkAdded' = [sinkAdded EXCEPT ![c] = SinkDisconnect(@, r)]
    /\ hookAdded' = [hookAdded EXCEPT ![c] = FALSE]
    /\ subscribed' = [subscribed EXCEPT ![c] = @ \ {r}]
    /\ last' = Call("unsubscribe", INVALID, c, "ok", <<>>)
    /\ yielded' = <<>>
    /\ unpacked' = <<>>
    /\ delivered' = <<>>
    /\ UNCHANGED <<ndebug, crashed, broken, reg, created, holds>>

\* EntityManager::subscribe<ComponentRemovedEvent<C>>(receiver)
Subscribe_Removed(r, c) ==
    /\ ~crashed
    /\ sinkRemoved' = [sinkRemoved EXCEPT ![c] = SinkConnect(@, r)]
    /\ hookRemoved' = [hookRemoved EXCEPT ![c] = TRUE]
    /\ subscribedRemoved' = [subscribedRemoved EXCEPT ![c] = @ \cup {r}]
    /\ last' = Call("subscribe", INVALID, c, "ok", <<>>)
    /\ evLast' = EvCall("subscribe", "ComponentRemoved", c, r, 0)
    /\ yielded' = <<>>
    /\ unpacked' = <<>>
    /\ delivered' = <<>>
    /\ UNCHANGED <<ndebug, crashed, broken, reg, created, holds,
                   sinkAdded, hookAdded, subscribed, sysVars, cmp,
                   sinks, subscribedTo, evFamily, queue, enqueued>>

\* EntityManager::unsubscribe<ComponentRemovedEvent<C>>(receiver), called for
\* a receiver that is subscribed: event_manager_.subscribe<Event>(receiver),
\* then destruction<C>().disconnect.
Unsubscribe_Removed(r, c) ==
    /\ ~crashed
    /\ r \in subscribedRemoved[c]
    /\ sinkRemoved' = [sinkRemoved EXCEPT ![c] = SinkConnect(@, r)]
    /\ hookRemoved' = [hookRemoved EXCEPT ![c] = FALSE]
    /\ subscribedRemoved' = [subscribedRemoved EXCEPT ![c] = @ \ {r}]
    /\ last' = Call("unsubscribe", INVALID, c, "ok", <<>>)
    /\ evLast' = EvCall("unsubscribe", "ComponentRemoved", c, r, 0)
    /\ yielded' = <<>>
    /\ unpacked' = <<>>
    /\ delivered' = <<>>
    /\ UNCHANGED <<ndebug, crashed, broken, reg, created, holds,
                   sinkAdded, hookAdded, subscribed, sysVars, cmp,
                   sinks, subscribedTo, evFamily, queue, enqueued>>

\* ------------------------------------------------------- Entity comparison
\* The EntityManagers a program has, by address; 0 is the null manager_ of
\* Entity().
Managers == {1, 2}

\* The identifiers the compared entities carry.
IdValues == [idx : Indices, ver : 0 .. MaxVersion] \cup {INVALID}

\* The Entity values: what getEntity of either manager builds, and Entity().
EntityValues ==
    [id : IdValues, manager : Managers] \cup {[id |-> INVALID, manager |-> 0]}

\* x < y on entity_type (uint32): the version is the high 12 bits, the index
\* the low 20.
IdLess(x, y) == x.ver < y.ver \/ (x.ver = y.ver /\ x.idx < y.idx)

\* Entity::operator==
Entity_eq(a, other) == other.manager = a.manager /\ other.id = a.id

\* Entity::operator<: return other.id_ < id_;
Entity_lt(a, other) == IdLess(other.id, a.id)

NoCompare ==
    [op |-> "none", a |-> [id |-> INVALID, manager |-> 0],
     b |-> [id |-> INVALID, manager |-> 0],
     lt |-> FALSE, eq |-> FALSE, gt |-> FALSE]

\* A caller evaluating a < b, a == b and b < a.
Compare(a, b) ==
    /\ ~crashed
    /\ cmp' = [op |-> "compare", a |-> a, b |-> b,
               lt |-> Entity_lt(a, b), eq |-> Entity_eq(a, b),
               gt |-> Entity_lt(b, a)]
    /\ UNCHANGED <<ndebug, crashed, broken, reg, created, holds, last, yielded,
                   sinkAdded, hookAdded, subscribed, delivered, sysVars,
                   removedVars, busVars, unpacked>>

\* ------------------------------------------------------------ EventManager
\* Dispatcher::wrapper<Event>(): the event family numbers a type the first
\* time the dispatcher is asked about it (sink, trigger and enqueue all ask).
EventFamilyAsk(t) ==
    IF t \in DOMAIN evFamily THEN evFamily
    ELSE [x \in DOMAIN evFamily \cup {t} |->
             IF x = t THEN Cardinality(DOMAIN evFamily) ELSE evFamily[x]]

\* SigH::publish of one event of type t with payload v.
Trigger(t, v) ==
    LET calls == SigHPublish(sinks[t])
    IN  [i \in 1 .. Len(calls) |-> [recv |-> calls[i], type |-> t, val |-> v]]

\* SignalWrapper::publish: the stored events of one type, first to last.
RECURSIVE WrapperPublish(_, _)
WrapperPublish(t, events) ==
    IF events = <<>> THEN <<>>
    ELSE Trigger(t, Head(events)) \o WrapperPublish(t, Tail(events))

\* Dispatcher::update: for(pos = wrappers.size(); pos; --pos) publish, the
\* wrappers from the highest family id to the lowest.
RECURSIVE DispatcherUpdate(_)
DispatcherUpdate(pos) ==
    IF pos = 0 THEN <<>>
    ELSE LET t == CHOOSE x \in DOMAIN evFamily : evFamily[x] = pos - 1
         IN  WrapperPublish(t, queue[t]) \o DispatcherUpdate(pos - 1)

QueueLen == Len(enqueued)

BusUnchanged ==
    UNCHANGED <<ndebug, crashed, broken, reg, created, holds, last, yielded,
                sinkAdded, hookAdded, subscribed, sysVars, removedVars,
                unpacked, cmp>>

\* EventManager::subscribe<Event>(receiver)
EventManager_subscribe(r, t) ==
    /\ ~crashed
    /\ BusUnchanged
    /\ evFamily' = EventFamilyAsk(t)
    /\ sinks' = [sinks EXCEPT ![t] = SinkConnect(@, r)]
    /\ subscribedTo' = [subscribedTo EXCEPT
                           ![t] = Append(SelectSeq(@, LAMBDA x : x # r), r)]
    /\ evLast' = EvCall("subscribe", t, "C1", r, 0)
    /\ delivered' = <<>>
    /\ UNCHANGED <<queue, enqueued>>

\* EventManager::unsubscribe<Event>(receiver)
EventManager_unsubscribe(r, t) ==
    /\ ~crashed
    /\ BusUnchanged
    /\ evFamily' = EventFamilyAsk(t)
    /\ sinks' = [sinks EXCEPT ![t] = SinkDisconnect(@, r)]
    /\ subscribedTo' = [subscribedTo EXCEPT
                           ![t] = SelectSeq(@, LAMBDA x : x # r)]
    /\ evLast' = EvCall("unsubscribe", t, "C1", r, 0)
    /\ delivered' = <<>>
    /\ UNCHANGED <<queue, enqueued>>

\* EventManager::emit<Event>(event)
EventManager_emit(t, v) ==
    /\ ~crashed
    /\ BusUnchanged
    /\ evFamily' = EventFamilyAsk(t)
    /\ delivered' = Trigger(t, v)
    /\ evLast' = EvCall("emit", t, "C1", "none", v)
    /\ UNCHANGED <<sinks, subscribedTo, queue, enqueued>>

\* EventManager::enqueue<Event>(event): events[current].push_back(event).
\* (The wrapper's second buffer takes what a listener enqueues while it is
\* being dispatched to; the receivers here enqueue nothing.)
EventManager_enqueue(t, v) ==
    /\ ~crashed
    /\ BusUnchanged
    /\ QueueLen < MaxQueue
    /\ evFamily' = EventFamilyAsk(t)
    /\ queue' = [queue EXCEPT ![t] = Append(@, v)]
    /\ enqueued' = Append(enqueued, [type |-> t, val |-> v])
    /\ evLast' = EvCall("enqueue", t, "C1", "none", v)
    /\ delivered' = <<>>
    /\ UNCHANGED <<sinks, subscribedTo>>

\* EventManager::update()
EventManager_update ==
    /\ ~crashed
    /\ BusUnchanged
    /\ delivered' = DispatcherUpdate(Cardinality(DOMAIN evFamily))
    /\ queue' = [t \in EventTypes |-> <<>>]
    /\ enqueued' = <<>>
    /\ evLast' = EvCall("update", "none", "C1", "none", 0)
    /\ UNCHANGED <<sinks, subscribedTo, evFamily>>

\* ----------------------------------------------------------- SystemManager
\* A system instance: its type and which of the instances handed to add()
\* of that type it is.
Instances == [type : SysTypes, n : 1 .. MaxAdds]
NoInstance == [type |-> "none", n |-> 0]

\* Family<SystemFamily>::type<System>(): the id the type already has, or the
\* next one (a function-local static initialised by identifier.fetch_add(1)).
FamilyType(t) == IF t \in DOMAIN family THEN family[t] ELSE identifier

\* A family that reads the counter and forgets to advance it.
FamilyAsk_NoIncrement(t) ==
    IF t \in DOMAIN family
    THEN UNCHANGED <<family, identifier>>
    ELSE /\ family' = [x \in DOMAIN family \cup {t} |->
                          IF x = t THEN identifier ELSE family[x]]
         /\ identifier' = identifier

FamilyAsk(t) ==
    IF t \in DOMAIN family
    THEN UNCHANGED <<family, identifier>>
    ELSE /\ family' = [x \in DOMAIN family \cup {t} |->
                          IF x = t THEN identifier ELSE family[x]]
         /\ identifier' = identifier + 1

\* systems_.find(key)
SystemsFind(key) == {i \in 1 .. Len(systems_) : systems_[i].key = key}

SystemsAt(key) == systems_[CHOOSE i \in SystemsFind(key) : TRUE].sys

InsertAt(s, p, x) == SubSeq(s, 1, p - 1) \o <<x>> \o SubSeq(s, p, Len(s))

SysCall(op, t, ret, inst, dt) ==
    [op |-> op, type |-> t, ret |-> ret, inst |-> inst, dt |-> dt,
     wasInitialized |-> initialized_,
     wasRegistered |-> SystemsFind(FamilyType(t)) # {}]

NoSysCall ==
    [op |-> "none", type |-> "none", ret |-> "ok", inst |-> NoInstance,
     dt |-> 0, wasInitialized |-> FALSE, wasRegistered |-> FALSE]

StoreUnchanged ==
    UNCHANGED <<ndebug, broken, reg, created, holds, last, yielded,
                sinkAdded, hookAdded, subscribed, delivered,
                removedVars, busVars, unpacked, cmp>>

\* SystemManager::add<System>(args...): a new instance; unordered_map::insert
\* keeps an element already stored under the key, and where a new element
\* lands in the iteration order is the hash table's business.  The new
\* instance is what the caller gets back either way.
SystemManager_add(t) ==
    /\ ~crashed
    /\ adds[t] < MaxAdds
    /\ StoreUnchanged
    /\ UNCHANGED <<crashed, initialized_, configures>>
    /\ FamilyAsk(t)
    /\ adds' = [adds EXCEPT ![t] = @ + 1]
    /\ LET inst == [type |-> t, n |-> adds[t] + 1]
       IN  /\ IF SystemsFind(FamilyType(t)) # {}
              THEN UNCHANGED <<systems_, registered>>
              ELSE /\ registered' = Append(registered, inst)
                   /\ \E p \in 1 .. Len(systems_) + 1 :
                        systems_' = InsertAt(systems_, p,
                                             [key |-> FamilyType(t), sys |-> inst])
           /\ sysLast' = SysCall("add", t, "ok", inst, 0)
    /\ updates' = <<>>

SysAbort(op, t, dt) ==
    /\ crashed' = TRUE
    /\ sysLast' = SysCall(op, t, "abort", NoInstance, dt)
    /\ updates' = <<>>
    /\ UNCHANGED <<systems_, initialized_, adds, registered, configures>>

\* SystemManager::system<System>(): assert(it != systems_.end()), and with
\* NDEBUG an empty shared_ptr.
SystemManager_system(t) ==
    /\ ~crashed
    /\ StoreUnchanged
    /\ FamilyAsk(t)
    /\ IF SystemsFind(FamilyType(t)) = {}
       THEN IF ~ndebug
            THEN SysAbort("system", t, 0)
            ELSE /\ sysLast' = SysCall("system", t, "null", NoInstance, 0)
                 /\ updates' = <<>>
                 /\ UNCHANGED <<crashed, systems_, initialized_, adds,
                                registered, configures>>
       ELSE /\ sysLast' = SysCall("system", t, "ok",
                                  SystemsAt(FamilyType(t)), 0)
            /\ updates' = <<>>
            /\ UNCHANGED <<crashed, systems_, initialized_, adds,
                           registered, configures>>

\* SystemManager::update<System>(dt): assert(initialized_), system<System>()
\* and its assert, then s->update(...); through an empty shared_ptr that
\* call has no defined outcome and the run ends there.
SystemManager_update(t, dt) ==
    /\ ~crashed
    /\ StoreUnchanged
    /\ FamilyAsk(t)
    /\ IF (~ndebug /\ ~initialized_) \/ SystemsFind(FamilyType(t)) = {}
       THEN SysAbort("update", t, dt)
       ELSE /\ updates' = <<[sys |-> SystemsAt(FamilyType(t)), dt |-> dt]>>
            /\ sysLast' = SysCall("update", t, "ok",
                                  SystemsAt(FamilyType(t)), dt)
            /\ UNCHANGED <<crashed, systems_, initialized_, adds,
                           registered, configures>>

\* SystemManager::update_all(dt): assert(initialized_), then every stored
\* system's update in the map's iteration order.
SystemManager_update_all(dt) ==
    /\ ~crashed
    /\ StoreUnchanged
    /\ UNCHANGED <<family, identifier>>
    /\ IF ~ndebug /\ ~initialized_
       THEN SysAbort("update_all", "none", dt)
       ELSE /\ updates' = [i \in 1 .. Len(systems_) |->
                              [sys |-> systems_[i].sys, dt |-> dt]]
            /\ sysLast' = [SysCall("update_all", "none", "ok", NoInstance, dt)
                             EXCEPT !.wasRegistered = FALSE]
            /\ UNCHANGED <<crashed, systems_, initialized_, adds,
                           registered, configures>>

\* SystemManager::configure(): every stored system's configure, then the flag.
SystemManager_configure ==
    /\ ~crashed
    /\ StoreUnchanged
    /\ \A i \in 1 .. Len(systems_) : configures[systems_[i].sys] < MaxConfigures
    /\ configures' = [x \in Instances |->
                        IF \E i \in 1 .. Len(systems_) : systems_[i].sys = x
                        THEN configures[x] + 1 ELSE configures[x]]
    /\ initialized_' = TRUE
    /\ sysLast' = [SysCall("configure", "none", "ok", NoInstance, 0)
                     EXCEPT !.wasRegistered = FALSE]
    /\ updates' = <<>>
    /\ UNCHANGED <<crashed, family, identifier, systems_, adds, registered>>

\* SystemManager::SystemManager: the program lets go of its scheduler and
\* constructs another.  The family's counter and the ids it has handed out
\* are statics and stay.
SystemManager_new ==
    /\ ~crashed
    /\ StoreUnchanged
    /\ systems_' = <<>>
    /\ initialized_' = FALSE
    /\ registered' = <<>>
    /\ updates' = <<>>
    /\ sysLast' = [NoSysCall EXCEPT !.op = "new"]
    /\ UNCHANGED <<crashed, family, identifier, adds, configures>>

\* --------------------------------------------------------- specifications
Init ==
    /\ ndebug \in BOOLEAN
    /\ crashed = FALSE
    /\ broken = 0
    /\ reg = EmptyRegistry
    /\ created = {}
    /\ holds = [c \in Components |-> {}]
    /\ last = NoCall
    /\ yielded = <<>>
    /\ sinkAdded = [c \in Components |-> <<>>]
    /\ hookAdded = [c \in Components |-> FALSE]
    /\ subscribed = [c \in Components |-> {}]
    /\ delivered = <<>>
    /\ identifier = 0
    /\ family = [t \in {} |-> 0]
    /\ systems_ = <<>>
    /\ initialized_ = FALSE
    /\ adds = [t \in SysTypes |-> 0]
    /\ registered = <<>>
    /\ configures = [x \in Instances |-> 0]
    /\ updates = <<>>
    /\ sysLast = NoSysCall
    /\ sinkRemoved = [c \in Components |-> <<>>]
    /\ hookRemoved = [c \in Components |-> FALSE]
    /\ subscribedRemoved = [c \in Components |-> {}]
    /\ sinks = [t \in EventTypes |-> <<>>]
    /\ subscribedTo = [t \in EventTypes |-> <<>>]
    /\ evFamily = [t \in {} |-> 0]
    /\ queue = [t \in EventTypes |-> <<>>]
    /\ enqueued = <<>>
    /\ evLast = NoEvCall
    /\ unpacked = <<>>
    /\ cmp = NoCompare

\* The entity store: entities, components and views, nobody subscribed.
Next ==
    \/ CreateEntity
    \/ \E e \in Held, c \in Components : Entity_assign(e, c)
    \/ \E e \in Held, c \in Components : Entity_remove(e, c)
    \/ \E e \in Held : Entity_destroy(e)
    \/ \E e \in Held, c \in Components : Entity_has_component(e, c)
    \/ \E e \in Held, c \in Components : ComponentHandle_get(e, c)
    \/ \E c \in Components : EntityViewSingle(c)
    \/ EntityViewMulti
    \/ \E c \in Components : EntityComponentViewSingle(c)
    \/ EntityComponentViewMulti

Spec == Init /\ [][Next]_vars

\* The structural events of one component: entities, assign and remove of
\* C1, and the receivers subscribing to and unsubscribing from its
\* ComponentAddedEvent.
NextEvents ==
    \/ CreateEntity
    \/ \E e \in Held : Entity_assign(e, "C1")
    \/ \E e \in Held : Entity_remove(e, "C1")
    \/ \E e \in Held : Entity_destroy(e)
    \/ \E r \in Receivers : Subscribe_Added(r, "C1")
    \/ \E r \in Receivers : Unsubscribe_Added(r, "C1")

SpecEvents == Init /\ [][NextEvents]_vars

\* One kept entity and an index that is recycled over and over, in a build
\* with assertions: every call that breaks a registry precondition ends the
\* run, so the registry is never corrupted.
InitAsserting == Init /\ ~ndebug

NextRecycle ==
    \/ /\ RegCreateId(reg) \in created \/ Cardinality(created) < MaxHeld
       /\ CreateEntity
    \/ \E e \in Held : Entity_assign(e, "C1")
    \/ \E e \in Held : Entity_destroy(e)
    \/ Recycle

SpecRecycle == InitAsserting /\ [][NextRecycle]_vars

\* Comparisons of Entity values.
NextOrder == \E a, b \in EntityValues : Compare(a, b)

SpecOrder == Init /\ [][NextOrder]_vars

\* The same for ComponentRemovedEvent.
NextRemoved ==
    \/ CreateEntity
    \/ \E e \in Held : Entity_assign(e, "C1")
    \/ \E e \in Held : Entity_remove(e, "C1")
    \/ \E e \in Held : Entity_destroy(e)
    \/ \E r \in Receivers : Subscribe_Removed(r, "C1")
    \/ \E r \in Receivers : Unsubscribe_Removed(r, "C1")

SpecRemoved == Init /\ [][NextRemoved]_vars

\* The event bus with two application event types.
NextBus ==
    \/ \E r \in Receivers, t \in EventTypes : EventManager_subscribe(r, t)
    \/ \E r \in Receivers, t \in EventTypes : EventManager_unsubscribe(r, t)
    \/ \E t \in EventTypes, v \in Vals : EventManager_emit(t, v)
    \/ \E t \in EventTypes, v \in Vals : EventManager_enqueue(t, v)
    \/ EventManager_update

SpecBus == Init /\ [][NextBus]_vars

\* The scheduler.
NextSystems ==
    \/ \E t \in SysTypes : SystemManager_add(t)
    \/ \E t \in SysTypes : SystemManager_system(t)
    \/ \E t \in SysTypes, dt \in Deltas : SystemManager_update(t, dt)
    \/ \E dt \in Deltas : SystemManager_update_all(dt)
    \/ SystemManager_configure

SpecSystems == Init /\ [][NextSystems]_vars

\* The scheduler in a build with assertions: update before configure() ends
\* the run.
SpecSystemsAsserting == InitAsserting /\ [][NextSystems]_vars

\* The family ids over the life of several schedulers.
NextFamily ==
    \/ \E t \in SysTypes : SystemManager_add(t)
    \/ \E t \in SysTypes : SystemManager_system(t)
    \/ SystemManager_new

SpecFamily == Init /\ [][NextFamily]_vars

\* ------------------------------------------------------------------ claims
Mutators == {"assign", "remove", "destroy"}

\* The live entities that hold c by the facade's documented meaning.
Holders(c) == {e \in created : Entity_valid(e) /\ e \in holds[c]}

NoDuplicates(s) == \A i, j \in 1 .. Len(s) : s[i] = s[j] => i = j

\* C1: once e.destroy() has returned, e.valid() is false and so is valid()
\* of the ComponentHandle of e for every component type.
C1_DestroyInvalidates ==
    (last.op = "destroy" /\ last.ret = "ok") =>
        /\ ~Entity_valid(last.ent)
        /\ \A c \in Components : ~ComponentHandle_valid(last.ent, c)

\* C1's case: destroy() returned on an entity that was valid and held a
\* component, so that a valid handle to it existed before the call.
C1_Witness ==
    /\ last.op = "destroy"
    /\ last.ret = "ok"
    /\ last.wasValid
    /\ last.fired # <<>>

\* C2: has_component<C>() on any entity a caller can hold returns, and
\* returns true exactly when assign<C> ran on it with no later remove<C> or
\* destroy; false on a destroyed entity.
C2_HasComponentIffAssigned ==
    last.op = "has_component" =>
        last.ret = (IF last.ent \in holds[last.comp] THEN "true" ELSE "false")

\* C3: update_all(dt) on a configured scheduler calls update once on every
\* registered system, in the order the systems were registered, each with dt.
C3_UpdateInRegistrationOrder ==
    (sysLast.op = "update_all" /\ sysLast.wasInitialized) =>
        updates = [i \in 1 .. Len(registered) |->
                      [sys |-> registered[i], dt |-> sysLast.dt]]

\* C4: update_all(dt) and update<System>(dt) before any configure() return
\* the error NotConfigured and call no system's update.
C4_UpdateBeforeConfigureRejected ==
    (sysLast.op \in {"update", "update_all"} /\ ~sysLast.wasInitialized) =>
        /\ sysLast.ret = "NotConfigured"
        /\ updates = <<>>

\* C5: whatever the scheduler is asked, no system's configure is called
\* more than once.
C5_ConfigureAtMostOnce ==
    \A x \in Instances : configures[x] <= 1

\* C6: add() of a system type whose family id is already registered returns
\* the error DuplicateSystem and leaves the first instance registered.
C6_DuplicateAddRejected ==
    (sysLast.op = "add" /\ sysLast.wasRegistered) =>
        /\ sysLast.ret = "DuplicateSystem"
        /\ SystemsAt(family[sysLast.type]) # sysLast.inst

\* C7: an assign<C> that returns on a valid entity e has handed every
\* receiver subscribed to ComponentAdded<C> exactly one event, for e, during
\* the call.
C7_AssignDeliversOnce ==
    (last.op = "assign" /\ last.ret = "ok" /\ last.wasValid) =>
        \A r \in subscribed[last.comp] :
            /\ Cardinality({i \in 1 .. Len(delivered) :
                              delivered[i].recv = r}) = 1
            /\ \A i \in 1 .. Len(delivered) :
                  delivered[i].recv = r =>
                      /\ delivered[i].kind = "added"
                      /\ delivered[i].comp = last.comp
                      /\ delivered[i].ent = last.ent

\* C8: assign<C>, remove<C> and destroy on an invalid entity (Entity() or a
\* destroyed one) return, leave the registry as it was and publish no
\* construction or destruction signal.
C8_InvalidEntityNoOp ==
    [][(last'.op \in Mutators /\ ~last'.wasValid /\ ~crashed) =>
          /\ last'.ret = "ok"
          /\ last'.fired = <<>>
          /\ reg' = reg]_vars

\* C9: one traversal of entities_with_components<C>() yields every live
\* entity holding C, each once, and nothing else.
C9_SingleViewYieldsHolders ==
    last.op = "view_single" =>
        /\ NoDuplicates(yielded)
        /\ Range(yielded) = Holders(last.comp)

HandedTo(d, r) ==
    LET mine == SelectSeq(d, LAMBDA x : x.recv = r)
    IN  [i \in 1 .. Len(mine) |-> [type |-> mine[i].type, val |-> mine[i].val]]

\* C11: when emit(event) returns, the event has been handed to the listeners
\* subscribed to its type, each once, in the order in which they subscribed,
\* and to nobody else.
C11_EmitInSubscriptionOrder ==
    evLast.op = "emit" =>
        /\ [i \in 1 .. Len(delivered) |-> delivered[i].recv]
               = subscribedTo[evLast.type]
        /\ \A i \in 1 .. Len(delivered) :
              /\ delivered[i].type = evLast.type
              /\ delivered[i].val = evLast.val

\* C12: enqueue(event) hands nothing to anybody; update() hands every
\* receiver the queued events of the types it is subscribed to, each once,
\* in the order they were enqueued, and leaves nothing queued.
C12_UpdateDrainsFifo ==
    [][/\ evLast'.op = "enqueue" => delivered' = <<>>
       /\ evLast'.op = "update" =>
             /\ \A r \in Receivers :
                   HandedTo(delivered', r) =
                       SelectSeq(enqueued,
                                 LAMBDA ev : r \in Range(subscribedTo[ev.type]))
             /\ \A t \in EventTypes : queue'[t] = <<>>]_vars

\* The dispatcher's listener list of an event type, and whether the storage
\* hook of a structural type is connected.
Listeners(t, c) ==
    CASE t = "ComponentAdded"   -> sinkAdded[c]
      [] t = "ComponentRemoved" -> sinkRemoved[c]
      [] OTHER                  -> sinks[t]

Hooked(t, c) ==
    CASE t = "ComponentAdded"   -> hookAdded[c]
      [] t = "ComponentRemoved" -> hookRemoved[c]
      [] OTHER                  -> FALSE

\* C13: once unsubscribe<Event>(receiver) has returned, the receiver is not
\* in the listener list of Event and, for ComponentAdded<C> and
\* ComponentRemoved<C>, the storage hook of C is disconnected; and a
\* structural mutation hands its event to no receiver that has unsubscribed.
C13_UnsubscribeReverses ==
    /\ evLast.op = "unsubscribe" =>
          /\ evLast.recv \notin Range(Listeners(evLast.type, evLast.comp))
          /\ ~Hooked(evLast.type, evLast.comp)
    /\ \A i \in 1 .. Len(delivered) :
          /\ delivered[i].kind = "added" =>
                delivered[i].recv \in subscribed[delivered[i].comp]
          /\ delivered[i].kind = "removed" =>
                delivered[i].recv \in subscribedRemoved[delivered[i].comp]

\* C14: get, operator-> and operator* on a handle whose valid() is false
\* return the error InvalidComponent or InvalidEntity to the caller and
\* touch no component storage.
C14_InvalidDereferenceRejected ==
    (last.op = "get" /\ ~ComponentHandle_valid(last.ent, last.comp)) =>
        last.ret \in {"InvalidComponent", "InvalidEntity"}

\* C15: system<System>() and update<System>(dt) of a type with no system
\* registered return the error SystemNotFound, call no update and leave the
\* registered systems as they were.
C15_UnregisteredSystemRejected ==
    [][(sysLast'.op \in {"system", "update"} /\ ~sysLast'.wasRegistered) =>
          /\ sysLast'.ret = "SystemNotFound"
          /\ updates' = <<>>
          /\ systems_' = systems_]_vars

FamilyInjective ==
    \A t1, t2 \in DOMAIN family : family[t1] = family[t2] => t1 = t2

\* C16: no two system types have the same family id; a type keeps the id it
\* was given, in every scheduler; and add() of a type with no system
\* registered stores the new system under the type's id and leaves every
\* system registered before in place.
C16_FamilyIdsInjective ==
    [][/\ FamilyInjective'
       /\ \A t \in DOMAIN family :
             t \in DOMAIN family' /\ family'[t] = family[t]
       /\ (sysLast'.op = "add" /\ ~sysLast'.wasRegistered) =>
             /\ \E j \in 1 .. Len(systems_') :
                   systems_'[j] = [key |-> family'[sysLast'.type],
                                   sys |-> sysLast'.inst]
             /\ \A i \in 1 .. Len(systems_) :
                   \E j \in 1 .. Len(systems_') : systems_'[j] = systems_[i]
             /\ Len(systems_') = Len(systems_) + 1]_vars

\* C16's case: a system of a type not yet registered was added to a
\* scheduler that already held a system of another type, while a third type
\* has its id from somewhere else (an earlier scheduler or a lookup).
C16_Witness ==
    /\ sysLast.op = "add"
    /\ ~sysLast.wasRegistered
    /\ Len(systems_) = 2
    /\ Cardinality(DOMAIN family) = 3
    /\ FamilyInjective

\* C17: in every state, for every entity a caller holds and every component
\* type, valid() of the entity's ComponentHandle<C> is true exactly when the
\* entity is valid and holds C (assign<C> ran on it with no later remove<C>
\* or destroy).
C17_HandleValidIffHolds ==
    \A e \in Held, c \in Components :
        ComponentHandle_valid(e, c) = (Entity_valid(e) /\ e \in holds[c])

\* C18: an Entity copy that has become invalid stays invalid, and so does
\* every ComponentHandle of it, whatever create() and assign calls follow,
\* also when create() hands out the copy's index again.
C18_StaleStaysInvalid ==
    [][\A e \in created :
          ~Entity_valid(e) =>
              /\ ~RegValid(reg', e)
              /\ \A c \in Components :
                    ~(RegValid(reg', e) /\ RegHasRaw(reg', c, e))]_vars

\* (manager, id) of a before (manager, id) of b, lexicographically.
LexLess(a, b) ==
    \/ a.manager < b.manager
    \/ a.manager = b.manager /\ IdLess(a.id, b.id)

\* C19: for any two entities a and b, a < b is true exactly when (manager,
\* index) of a comes before (manager, index) of b, and exactly one of
\* a < b, a == b, b < a is true.
C19_OrderByManagerAndIndex ==
    cmp.op = "compare" =>
        /\ cmp.lt = LexLess(cmp.a, cmp.b)
        /\ cmp.gt = LexLess(cmp.b, cmp.a)
        /\ Cardinality({x \in {"lt", "eq", "gt"} : cmp[x]}) = 1

\* The component types an unpacking traversal was asked for.
Requested == IF last.op = "unpack_single" THEN {last.comp} ELSE Components

\* C20: in a traversal of an unpacking view, before each entity e is yielded
\* every handle of the caller has been written exactly once, with a handle
\* of its component type on e whose valid() is true.
C20_UnpackWritesFreshHandles ==
    last.op \in {"unpack_single", "unpack_multi"} =>
        /\ Len(unpacked) = Len(yielded)
        /\ \A i \in 1 .. Len(yielded) :
              /\ \A c \in Requested :
                    /\ Cardinality({k \in 1 .. Len(unpacked[i]) :
                                       unpacked[i][k].comp = c}) = 1
                    /\ ComponentHandle_valid(yielded[i], c)
              /\ \A k \in 1 .. Len(unpacked[i]) :
                    /\ unpacked[i][k].comp \in Requested
                    /\ unpacked[i][k].handle = yielded[i]

\* How many events the last call handed to receiver r.
Deliveries(r) == Cardinality({i \in 1 .. Len(delivered) : delivered[i].recv = r})

\* C21: while any receiver is subscribed to ComponentAdded<C> (or
\* ComponentRemoved<C>) the storage hook of C is connected, whoever else has
\* unsubscribed; and assign<C> (or remove<C>) on a valid entity hands one
\* event to each receiver still subscribed and none to the others.
C21_DeliveryPerSubscriber ==
    /\ \A c \in Components :
          /\ subscribed[c] # {} => hookAdded[c]
          /\ subscribedRemoved[c] # {} => hookRemoved[c]
    /\ (last.op = "assign" /\ last.ret = "ok" /\ last.wasValid) =>
          \A r \in Receivers :
              Deliveries(r) = IF r \in subscribed[last.comp] THEN 1 ELSE 0
    /\ (last.op = "remove" /\ last.ret = "ok" /\ last.wasValid) =>
          \A r \in Receivers :
              Deliveries(r) = IF r \in subscribedRemoved[last.comp] THEN 1 ELSE 0

\* C22: no system's update is called before that system's configure has
\* been called, whatever the order of add, configure, update_all and
\* update<System>.
C22_ConfiguredBeforeUpdated ==
    \A i \in 1 .. Len(updates) : configures[updates[i].sys] >= 1

====
